---- MODULE Spec2Model ----
(***************************************************************************)
(* Model of src/app/page.tsx (Voxe e-book reader): the sentence splitter   *)
(* splitIntoSentences and the playback handlers handleFileUpload,          *)
(* handlePlay, handleSentenceClick together with the callbacks they bind   *)
(* on a SpeechSynthesisUtterance.                                          *)
(*                                                                         *)
(* Strings are sequences of one-character strings.  Offsets and indices    *)
(* are 0-based as in the source; At/substring convert to 1-based tuples.   *)
(*                                                                         *)
(* Spec is the page with its handlers, timers and the speech engine.       *)
(* SegSpec is splitIntoSentences on every short string.  ProgressSpec is   *)
(* one utterance receiving boundary events at non-decreasing offsets.      *)
(***************************************************************************)
EXTENDS Integers, Sequences, FiniteSets, TLC

(***************************************************************************)
(* Bounds of the model.                                                    *)
(***************************************************************************)
\* longest input string given to splitIntoSentences in SegSpec
MaxLen == 5

\* utterances created plus restart timers pending, over a whole run
MaxRequests == 3

\* the value null of currentSentenceIndex (useState<number | null>(null))
null == -1

(***************************************************************************)
(* String helpers (JavaScript String methods used by the source).          *)
(***************************************************************************)
\* /\s/ : the whitespace characters of the model's alphabet
IsSpace(c) == c \in {" ", "\n", "\t"}

\* /[.!?]/
IsTerminator(c) == c \in {".", "!", "?"}

\* s.charAt(i), 0-based
At(s, i) == s[i + 1]

\* s.substring(a, b), 0-based half-open
substring(s, a, b) == SubSeq(s, a + 1, b)

RECURSIVE TrimStart(_)
TrimStart(s) ==
    IF s # << >> /\ IsSpace(Head(s)) THEN TrimStart(Tail(s)) ELSE s

RECURSIVE TrimEnd(_)
TrimEnd(s) ==
    IF s # << >> /\ IsSpace(s[Len(s)]) THEN TrimEnd(SubSeq(s, 1, Len(s) - 1)) ELSE s

\* s.trim()
trim(s) == TrimEnd(TrimStart(s))

\* replace(/\s/g, ' ') : every whitespace character becomes a space, runs are kept
RECURSIVE ReplaceEachWhitespace(_)
ReplaceEachWhitespace(s) ==
    IF s = << >> THEN << >>
    ELSE IF IsSpace(Head(s))
         THEN <<" ">> \o ReplaceEachWhitespace(Tail(s))
         ELSE <<Head(s)>> \o ReplaceEachWhitespace(Tail(s))

\* s.replace(/\s+/g, ' ') : every maximal whitespace run becomes one space
RECURSIVE CollapseWhitespace(_)
CollapseWhitespace(s) ==
    IF s = << >> THEN << >>
    ELSE IF IsSpace(Head(s))
         THEN <<" ">> \o CollapseWhitespace(TrimStart(Tail(s)))
         ELSE <<Head(s)>> \o CollapseWhitespace(Tail(s))

\* the normalization without .trim()
cleanedTextUntrimmed(text) == CollapseWhitespace(text)

\* const cleanedText = text.replace(/\s+/g, ' ').trim()
cleanedTextOf(text) == trim(CollapseWhitespace(text))

\* first index >= p holding a character that is not a terminator (or Len(s))
RECURSIVE TerminatorRunEnd(_, _)
TerminatorRunEnd(s, p) ==
    IF p < Len(s) /\ IsTerminator(At(s, p)) THEN TerminatorRunEnd(s, p + 1) ELSE p

\* first index >= p holding a character that is not whitespace (or Len(s))
RECURSIVE SpaceRunEnd(_, _)
SpaceRunEnd(s, p) ==
    IF p < Len(s) /\ IsSpace(At(s, p)) THEN SpaceRunEnd(s, p + 1) ELSE p

NoMatch == [index |-> -1, group1 |-> 0, whole |-> 0]

\* /([.!?]+)\s*/g .exec(s): the whitespace behind the terminators optional
RECURSIVE sentenceEndingsOptionalSpace(_, _)
sentenceEndingsOptionalSpace(s, from) ==
    IF from >= Len(s) THEN NoMatch
    ELSE IF IsTerminator(At(s, from))
         THEN LET q == TerminatorRunEnd(s, from)
              IN  [index |-> from, group1 |-> q - from,
                   whole |-> SpaceRunEnd(s, q) - from]
         ELSE sentenceEndingsOptionalSpace(s, from + 1)

\* /([.!?]+)\s+/g .exec(s) with regex.lastIndex = from: the leftmost match at
\* or after from.  [.!?]+ is greedy; giving characters back never helps,
\* because the character after a shorter group is a terminator and not \s,
\* so a position matches iff the terminator run starting there is followed
\* by whitespace.  index = match.index, group1 = match[1].length,
\* whole = match[0].length.
RECURSIVE sentenceEndingsExec(_, _)
sentenceEndingsExec(s, from) ==
    IF from >= Len(s) THEN NoMatch
    ELSE IF IsTerminator(At(s, from))
         THEN LET q == TerminatorRunEnd(s, from)
              IN  IF q < Len(s) /\ IsSpace(At(s, q))
                  THEN [index |-> from, group1 |-> q - from,
                        whole |-> SpaceRunEnd(s, q) - from]
                  ELSE sentenceEndingsExec(s, from + 1)
         ELSE sentenceEndingsExec(s, from + 1)

Sentence(t, a, b) == [text |-> t, startIndex |-> a, endIndex |-> b]

\* the loop taking a sentence through the whitespace behind its terminators
RECURSIVE MatchLoopThroughWhitespace(_, _, _)
MatchLoopThroughWhitespace(cleanedText, lastIndex, acc) ==
    LET match == sentenceEndingsExec(cleanedText, lastIndex)
    IN  IF match = NoMatch THEN [sentences |-> acc, lastIndex |-> lastIndex]
        ELSE LET end == match.index + match.whole
                 sentenceText == trim(substring(cleanedText, lastIndex, end))
                 pushed == IF Len(sentenceText) > 0
                           THEN Append(acc, Sentence(sentenceText, lastIndex, end))
                           ELSE acc
             IN  MatchLoopThroughWhitespace(cleanedText, match.index + match.whole, pushed)

\* the loop searching on from one past the start of the match, not from its end
RECURSIVE MatchLoopRescanning(_, _, _)
MatchLoopRescanning(cleanedText, lastIndex, acc) ==
    LET match == sentenceEndingsExec(cleanedText, lastIndex)
    IN  IF match = NoMatch THEN [sentences |-> acc, lastIndex |-> lastIndex]
        ELSE LET end == match.index + match.group1
                 sentenceText == trim(substring(cleanedText, lastIndex, end))
                 pushed == IF Len(sentenceText) > 0
                           THEN Append(acc, Sentence(sentenceText, lastIndex, end))
                           ELSE acc
             IN  MatchLoopRescanning(cleanedText, match.index + 1, pushed)

\* the while loop over sentenceEndings.exec(cleanedText): returns the
\* sentences pushed and the final lastIndex
RECURSIVE MatchLoop(_, _, _)
MatchLoop(cleanedText, lastIndex, acc) ==
    LET match == sentenceEndingsExec(cleanedText, lastIndex)
    IN  IF match = NoMatch THEN [sentences |-> acc, lastIndex |-> lastIndex]
        ELSE LET end == match.index + match.group1
                 sentenceText == trim(substring(cleanedText, lastIndex, end))
                 pushed == IF Len(sentenceText) > 0
                           THEN Append(acc, Sentence(sentenceText, lastIndex, end))
                           ELSE acc
             IN  MatchLoop(cleanedText, match.index + match.whole, pushed)

\* the text after the last match is dropped
WithoutRemaining(cleanedText, r) == r.sentences

\* "Add the last sentence if there's remaining text"
WithRemaining(cleanedText, r) ==
    IF r.lastIndex < Len(cleanedText)
    THEN LET remainingText == trim(substring(cleanedText, r.lastIndex, Len(cleanedText)))
         IN  IF Len(remainingText) > 0
             THEN Append(r.sentences,
                         Sentence(remainingText, r.lastIndex, Len(cleanedText)))
             ELSE r.sentences
    ELSE r.sentences

\* first index >= p holding "\n"-free character, i.e. end of a /\n+/ match
RECURSIVE NewlineRunEnd(_, _)
NewlineRunEnd(s, p) ==
    IF p < Len(s) /\ At(s, p) = "\n" THEN NewlineRunEnd(s, p + 1) ELSE p

\* s.split(/\n+/) : the pieces between maximal runs of line breaks
RECURSIVE SplitLines(_, _, _)
SplitLines(s, p, cur) ==
    IF p >= Len(s) THEN <<cur>>
    ELSE IF At(s, p) = "\n"
         THEN <<cur>> \o SplitLines(s, NewlineRunEnd(s, p), << >>)
         ELSE SplitLines(s, p + 1, Append(cur, At(s, p)))

\* s.indexOf(sub, from)
RECURSIVE indexOf(_, _, _)
indexOf(s, sub, from) ==
    IF from + Len(sub) > Len(s) THEN -1
    ELSE IF substring(s, from, from + Len(sub)) = sub THEN from
         ELSE indexOf(s, sub, from + 1)

\* lines.forEach(...) of the line-break fallback
RECURSIVE LinesLoop(_, _, _, _)
LinesLoop(cleanedText, lines, currentIndex, acc) ==
    IF lines = << >> THEN acc
    ELSE LET trimmedLine == trim(Head(lines))
         IN  IF Len(trimmedLine) > 0
             THEN LET startIndex == indexOf(cleanedText, trimmedLine, currentIndex)
                  IN  LinesLoop(cleanedText, Tail(lines),
                                startIndex + Len(trimmedLine),
                                Append(acc, Sentence(trimmedLine, startIndex,
                                                     startIndex + Len(trimmedLine))))
             ELSE LinesLoop(cleanedText, Tail(lines), currentIndex, acc)

\* "If no sentences found ... split by line breaks or treat as one"
Fallback(cleanedText) ==
    LET lines == SelectSeq(SplitLines(cleanedText, 0, << >>),
                           LAMBDA line : Len(trim(line)) > 0)
    IN  IF Len(lines) > 1
        THEN LinesLoop(cleanedText, lines, 0, << >>)
        ELSE <<Sentence(cleanedText, 0, Len(cleanedText))>>

\* splitIntoSentences without the early return for an empty cleanedText
splitWithoutEmptyCheck(text) ==
    LET cleanedText == cleanedTextOf(text)
        found == WithRemaining(cleanedText, MatchLoop(cleanedText, 0, << >>))
    IN  IF Len(found) = 0 THEN Fallback(cleanedText) ELSE found

\* splitIntoSentences(text)
splitIntoSentences(text) ==
    LET cleanedText == cleanedTextOf(text)
    IN  IF cleanedText = << >> THEN << >>
        ELSE LET found == WithRemaining(cleanedText, MatchLoop(cleanedText, 0, << >>))
             IN  IF Len(found) = 0 THEN Fallback(cleanedText) ELSE found

(***************************************************************************)
(* Array helpers.                                                          *)
(***************************************************************************)
\* arr.slice(start): a negative start counts from the end
slice(arr, start) ==
    LET from == IF start < 0
                THEN (IF Len(arr) + start < 0 THEN 0 ELSE Len(arr) + start)
                ELSE start
    IN  IF from >= Len(arr) THEN << >> ELSE SubSeq(arr, from + 1, Len(arr))

\* texts.join(' ')
RECURSIVE join(_)
join(texts) ==
    IF texts = << >> THEN << >>
    ELSE IF Len(texts) = 1 THEN Head(texts)
         ELSE Head(texts) \o <<" ">> \o join(Tail(texts))

\* sentences.slice(index).map(s => s.text).join(' ').trim()
textToReadOf(sents, index) ==
    LET part == slice(sents, index)
    IN  trim(join([i \in 1..Len(part) |-> part[i].text]))

\* let charCount = 0; sentences.slice(startIndex).map((s, idx) => {...});
\* charCount before entry i is the sum over j < i of s_j.text.length + 1
\* charCount += s.text.length, the separating space not counted
RECURSIVE charCountUnspaced(_, _)
charCountUnspaced(part, i) ==
    IF i <= 1 THEN 0
    ELSE charCountUnspaced(part, i - 1) + Len(part[i - 1].text)

RECURSIVE charCountBefore(_, _)
charCountBefore(part, i) ==
    IF i <= 1 THEN 0
    ELSE charCountBefore(part, i - 1) + Len(part[i - 1].text) + 1

sentenceStartIndicesOf(sents, startIndex) ==
    LET part == slice(sents, startIndex)
    IN  [i \in 1..Len(part) |->
            [index |-> startIndex + (i - 1), charStart |-> charCountBefore(part, i)]]

\* the loop returning the position in the slice, not the sentence's index
RECURSIVE boundaryPosition(_, _, _)
boundaryPosition(table, i, currentCharIndex) ==
    IF i < 1 THEN null
    ELSE IF currentCharIndex >= table[i].charStart THEN i - 1
         ELSE boundaryPosition(table, i - 1, currentCharIndex)

\* the for loop of utterance.onboundary: from the last entry down, the first
\* entry with currentCharIndex >= charStart; null when no entry qualifies
RECURSIVE boundaryIndex(_, _, _)
boundaryIndex(table, i, currentCharIndex) ==
    IF i < 1 THEN null
    ELSE IF currentCharIndex >= table[i].charStart THEN table[i].index
         ELSE boundaryIndex(table, i - 1, currentCharIndex)

\* new SpeechSynthesisUtterance(textToRead) with the values its callbacks
\* close over (startIndex / index, sentenceStartIndices)
NewUtterance(sents, startIndex) ==
    [text |-> textToReadOf(sents, startIndex),
     startIndex |-> startIndex,
     sentenceStartIndices |-> sentenceStartIndicesOf(sents, startIndex)]

(***************************************************************************)
(* Uploaded files: the text of each file's spine sections.  Reading the    *)
(* container itself is left to epubjs.                                     *)
(***************************************************************************)
Word(c, n) == [i \in 1..n |-> c]

Sp == <<" ">>

\* a cover page: short text, rejected by the isLikelyCover heuristic
CoverText == <<"c", "o", "v", "e", "r">>

\* three sentences, ten words, paragraphs separated by blank lines
ChapterA ==
    <<"A">> \o Word("a", 4) \o Sp \o Word("a", 5) \o Sp \o Word("a", 5) \o Sp
        \o Word("a", 5) \o <<".", "\n", "\n">>
    \o <<"B">> \o Word("b", 4) \o Sp \o Word("b", 5) \o Sp \o Word("b", 5)
        \o <<"!", " ", " ">>
    \o <<"A">> \o Word("a", 4) \o Sp \o Word("b", 5) \o Sp \o Word("a", 5) \o <<"?", "\n">>

\* one sentence of ten words, no terminator followed by whitespace
ChapterB ==
    <<"B">> \o Word("b", 4) \o Sp \o Word("b", 5) \o Sp \o Word("b", 5) \o Sp
        \o Word("b", 5) \o Sp \o Word("b", 5) \o Sp \o Word("a", 5) \o Sp
        \o Word("a", 5) \o Sp \o Word("a", 5) \o Sp \o Word("a", 5) \o Sp
        \o Word("a", 5) \o <<".">>

\* the files the user uploads, in this order
Files == <<"a.epub", "b.epub">>

\* the spine sections of each file
Sections(file) ==
    IF file = "a.epub" THEN <<CoverText, ChapterA>> ELSE <<ChapterB>>

\* s.toLowerCase() on the letters the files use
toLowerCase(s) ==
    [i \in DOMAIN s |-> IF s[i] = "A" THEN "a" ELSE IF s[i] = "B" THEN "b" ELSE s[i]]

\* s.split(/\s+/).length : pieces between whitespace runs
RECURSIVE SplitSpaceCount(_, _)
SplitSpaceCount(s, p) ==
    IF p >= Len(s) THEN 1
    ELSE IF IsSpace(At(s, p)) THEN 1 + SplitSpaceCount(s, SpaceRunEnd(s, p))
         ELSE SplitSpaceCount(s, p + 1)

\* trimmedText.length < 50
CoverMaxLength == 50

\* trimmedText.split(/\s+/).length < 10
CoverMaxWords == 10

\* const maxChaptersToTry = 10
maxChaptersToTry == 10

isLikelyCover(trimmedText) ==
    \/ Len(trimmedText) < CoverMaxLength
    \/ trimmedText = CoverText
    \/ indexOf(trimmedText, <<"t","i","t","l","e"," ","p","a","g","e">>, 0) >= 0
    \/ indexOf(trimmedText, <<"c","o","p","y","r","i","g","h","t">>, 0) >= 0
    \/ SplitSpaceCount(trimmedText, 0) < CoverMaxWords

\* the for loop over spine sections: the text of the first section that is
\* not a likely cover, << >> when none is found
RECURSIVE FindContent(_, _)
FindContent(sections, i) ==
    IF i >= maxChaptersToTry \/ i >= Len(sections) THEN << >>
    ELSE LET textContent == sections[i + 1]
             trimmedText == toLowerCase(trim(textContent))
         IN  IF Len(trimmedText) > 0 /\ ~isLikelyCover(trimmedText)
             THEN textContent
             ELSE FindContent(sections, i + 1)

\* const extractedSentences = splitIntoSentences(textContent), per file,
\* computed once
extractedSentences == [f \in {Files[k] : k \in DOMAIN Files} |-> splitIntoSentences(FindContent(Sections(f), 0))]

\* the offsets at which the words of t start
WordStarts(t) ==
    {i \in 0..(Len(t) - 1) : ~IsSpace(At(t, i)) /\ (i = 0 \/ IsSpace(At(t, i - 1)))}

\* the offsets the engine reports in 'boundary' events: those of the words
\* that begin a sentence of the text it is given (event.name = 'sentence';
\* onboundary treats 'word' and 'sentence' alike)
BoundaryOffsets(t) ==
    {i \in WordStarts(t) : i = 0 \/ (i >= 2 /\ IsTerminator(At(t, i - 2)))}

\* the utterance handlePlay / the timer continuation builds from the
\* sentences of file f for start index i, computed once
built ==
    [f \in {Files[k] : k \in DOMAIN Files} |->
        [i \in 0..(Len(extractedSentences[f]) - 1) |->
            NewUtterance(extractedSentences[f], i)]]

(***************************************************************************)
(* State.                                                                  *)
(***************************************************************************)
VARIABLES
    sentences,              \* useState<Sentence[]>([])
    isLoading,              \* useState(false)
    isPlaying,              \* useState(false)
    currentSentenceIndex,   \* useState<number | null>(null)
    error,                  \* useState<string | null>(null)
    epubFile,               \* useState<File | null>(null)
    synth,                  \* window.speechSynthesis
    created,                \* number of SpeechSynthesisUtterance objects created
    timers,                 \* setTimeout(..., 100) continuations pending, FIFO
    listeners,              \* 'voiceschanged' {once: true} listeners, in order
    events,                 \* error events of cancelled utterances, not yet dispatched
    uploads,                \* the number of files uploaded so far
    last,                   \* history: the handler branch that ran last
    segText,                \* SegSpec: the argument of splitIntoSentences
    segResult,              \* SegSpec: its return value
    segPc,                  \* SegSpec: "input" before the call, "done" after
    reportedOffset          \* ProgressSpec: event.charIndex of the latest boundary event

reactState == <<sentences, isLoading, isPlaying, currentSentenceIndex, error, epubFile>>
engineState == <<synth, created, timers, listeners, events>>
segState == <<segText, segResult, segPc>>
\* what the steps of Spec leave alone
apart == <<segState, reportedOffset>>
vars == <<reactState, engineState, uploads, last, apart>>

(***************************************************************************)
(* An utterance is held as its identity (the order of creation), the file  *)
(* whose sentences it was built from and its start index; the text and the *)
(* offset table its callbacks close over are those of built.  A timer      *)
(* continuation holds the sentences it closes over the same way.           *)
(***************************************************************************)
Utterance(id, file, startIndex) == [id |-> id, file |-> file, startIndex |-> startIndex]

TextOf(u) == built[u.file][u.startIndex].text

TableOf(u) == built[u.file][u.startIndex].sentenceStartIndices

\* the offsets the engine may report while speaking each utterance, computed once
reported ==
    [f \in {Files[k] : k \in DOMAIN Files} |->
        [i \in 0..(Len(extractedSentences[f]) - 1) |->
            {o : o \in BoundaryOffsets(built[f][i].text)}]]

(***************************************************************************)
(* window.speechSynthesis, after the Web Speech API: speak() appends to    *)
(* the queue; the head starts when the engine is not paused; `speaking` is *)
(* true from the head's start to its end, also while paused; cancel()      *)
(* empties the queue and leaves `paused` alone; every utterance removed by *)
(* cancel() gets an error event, dispatched later as a task of its own.    *)
(***************************************************************************)
NoError == [msg |-> "null", code |-> ""]
Message(m) == [msg |-> m, code |-> ""]
SynthesisError(code) == [msg |-> "Speech synthesis error", code |-> code]

\* event.error of an utterance the engine gives up on; "" : no code is reported
FailureCodes == {"", "synthesis-failed"}

Event(u, name, charIndex, code) ==
    [u |-> u, name |-> name, charIndex |-> charIndex, error |-> code]

\* the error events cancel() fires: "interrupted" for the utterance being
\* spoken, "canceled" for one still queued
CancelEvents(sy) ==
    [i \in 1..Len(sy.queue) |->
        Event(sy.queue[i], "error", 0,
              IF i = 1 /\ sy.speaking THEN "interrupted" ELSE "canceled")]

\* window.speechSynthesis.cancel()
cancel(sy) == [sy EXCEPT !.queue = << >>, !.speaking = FALSE]

\* window.speechSynthesis.speak(utterance)
speak(sy, u) == [sy EXCEPT !.queue = Append(@, u)]

\* window.speechSynthesis.pause()
pause(sy) == [sy EXCEPT !.paused = TRUE]

\* window.speechSynthesis.resume()
resume(sy) == [sy EXCEPT !.paused = FALSE]

\* speak() not preceded by cancel()
SpeakWithoutCancel(w, u) ==
    [synth |-> speak(w.synth, u), events |-> w.events, listeners |-> w.listeners]

\* "Cancel before speak to prevent intermittent issues":
\* window.speechSynthesis.cancel(); window.speechSynthesis.speak(utterance)
CancelThenSpeak(w, u) ==
    [synth |-> speak(cancel(w.synth), u),
     events |-> w.events \o CancelEvents(w.synth),
     listeners |-> w.listeners]

\* if (getVoices().length === 0) addEventListener('voiceschanged', ...) else ...
SpeakWhenReady(w, u) ==
    IF ~w.synth.voices
    THEN [w EXCEPT !.listeners = Append(@, u)]
    ELSE CancelThenSpeak(w, u)

World == [synth |-> synth, events |-> events, listeners |-> listeners]

\* the bound of the model: one more utterance or restart timer may be created
Budget == created + Len(timers) < MaxRequests

(***************************************************************************)
(* Initial state: the state hooks of Home().                               *)
(***************************************************************************)
CoordInit ==
    /\ sentences = << >>
    /\ isLoading = FALSE
    /\ isPlaying = FALSE
    /\ currentSentenceIndex = null
    /\ error = NoError
    /\ epubFile = "null"
    /\ synth \in {[queue |-> << >>, speaking |-> FALSE, paused |-> FALSE,
                   voices |-> v] : v \in BOOLEAN}
    /\ created = 0
    /\ timers = << >>
    /\ listeners = << >>
    /\ events = << >>
    /\ uploads = 0
    /\ last = [op |-> "init", arg |-> null, code |-> "none", afterEnd |-> FALSE]

Init ==
    /\ CoordInit
    /\ segText = << >>
    /\ segResult = << >>
    /\ segPc = "off"
    /\ reportedOffset = 0

\* the record of a handler branch: its name, its index argument, the error
\* code an onerror callback was given, and whether the branch that ran before
\* it was an onend callback
Ran(op, arg) == [op |-> op, arg |-> arg, code |-> "none", afterEnd |-> last.op = "onend"]

(***************************************************************************)
(* handleFileUpload.  The part before the first await runs at once; the    *)
(* rest runs when the file has been read and parsed.  The file input is    *)
(* disabled while isLoading.                                               *)
(***************************************************************************)
\* setEpubFile(file); setError(null); setIsLoading(true); setSentences([]);
\* setCurrentSentenceIndex(null);
UploadBegin ==
    /\ ~isLoading
    /\ uploads < Len(Files)
    /\ epubFile' = Files[uploads + 1]
    /\ error' = NoError
    /\ isLoading' = TRUE
    /\ sentences' = << >>
    /\ currentSentenceIndex' = null
    /\ uploads' = uploads + 1
    /\ last' = Ran("upload:begin", null)
    /\ UNCHANGED <<isPlaying, engineState, apart>>

\* the try block after parsing: throw when no content chapter was found,
\* else setSentences(extractedSentences); finally setIsLoading(false)
UploadDone ==
    /\ isLoading
    /\ LET textContent == FindContent(Sections(epubFile), 0)
       IN  IF trim(textContent) = << >>
           THEN /\ error' = Message("No text content found in the EPUB")
                /\ last' = Ran("upload:failed", null)
                /\ UNCHANGED sentences
           ELSE /\ sentences' = extractedSentences[epubFile]
                /\ last' = Ran("upload:done", null)
                /\ UNCHANGED error
    /\ isLoading' = FALSE
    /\ UNCHANGED <<isPlaying, currentSentenceIndex, epubFile, engineState, uploads,
                   apart>>

(***************************************************************************)
(* handlePlay.  The Play button is disabled while isLoading; the page      *)
(* shows it once sentences are loaded, the handler tests for none itself.  *)
(***************************************************************************)
\* "Start playing from the beginning or resume": what follows the pause branch
PlayStart ==
    LET startIndex == IF currentSentenceIndex # null THEN currentSentenceIndex ELSE 0
        textToRead == textToReadOf(sentences, startIndex)
    IN  IF textToRead = << >>
        THEN /\ last' = Ran("play:notext", startIndex)
             /\ UNCHANGED <<reactState, engineState>>
        ELSE /\ Budget
             /\ LET w == SpeakWhenReady(World, Utterance(created + 1, epubFile, startIndex))
                IN  /\ synth' = w.synth
                    /\ events' = w.events
                    /\ listeners' = w.listeners
             /\ created' = created + 1
             /\ last' = Ran("play:start", startIndex)
             /\ UNCHANGED <<reactState, timers>>

\* handlePlay without the test for sentences.length === 0
handlePlayUnguarded ==
    /\ ~isLoading
    /\ IF ~isPlaying /\ synth.paused /\ currentSentenceIndex # null
       THEN /\ synth' = resume(synth)
            /\ isPlaying' = TRUE
            /\ last' = Ran("play:resume", currentSentenceIndex)
            /\ UNCHANGED <<sentences, isLoading, currentSentenceIndex, error, epubFile,
                           created, timers, listeners, events>>
       ELSE IF isPlaying
       THEN /\ synth' = IF synth.speaking THEN pause(synth) ELSE synth
            /\ isPlaying' = FALSE
            /\ last' = Ran("play:pause", currentSentenceIndex)
            /\ UNCHANGED <<sentences, isLoading, currentSentenceIndex, error, epubFile,
                           created, timers, listeners, events>>
       ELSE PlayStart
    /\ UNCHANGED <<uploads, apart>>

handlePlay ==
    /\ ~isLoading
    /\ IF Len(sentences) = 0
       THEN /\ error' = Message("Please upload and parse an EPUB file first")
            /\ last' = Ran("play:empty", null)
            /\ UNCHANGED <<sentences, isLoading, isPlaying, currentSentenceIndex,
                           epubFile, engineState>>
       ELSE IF ~isPlaying /\ synth.paused /\ currentSentenceIndex # null
       THEN /\ synth' = resume(synth)
            /\ isPlaying' = TRUE
            /\ last' = Ran("play:resume", currentSentenceIndex)
            /\ UNCHANGED <<sentences, isLoading, currentSentenceIndex, error, epubFile,
                           created, timers, listeners, events>>
       ELSE IF isPlaying
       THEN /\ synth' = IF synth.speaking THEN pause(synth) ELSE synth
            /\ isPlaying' = FALSE
            /\ last' = Ran("play:pause", currentSentenceIndex)
            /\ UNCHANGED <<sentences, isLoading, currentSentenceIndex, error, epubFile,
                           created, timers, listeners, events>>
       ELSE PlayStart
    /\ UNCHANGED <<uploads, apart>>

(***************************************************************************)
(* handleSentenceClick(index) and its setTimeout continuation.             *)
(***************************************************************************)
\* "Stop current playback (different sentence clicked)" and what follows
ClickRestart(index) ==
    /\ synth' = IF synth.speaking THEN cancel(synth) ELSE synth
    /\ events' = IF synth.speaking THEN events \o CancelEvents(synth) ELSE events
    /\ isPlaying' = FALSE
    /\ currentSentenceIndex' = null
    /\ IF textToReadOf(sentences, index) = << >>
       THEN /\ last' = Ran("click:notext", index)
            /\ UNCHANGED timers
       ELSE /\ Budget
            /\ timers' = Append(timers, [index |-> index, file |-> epubFile])
            /\ last' = Ran("click:restart", index)
    /\ UNCHANGED <<sentences, isLoading, error, epubFile, created, listeners>>

handleSentenceClick(index) ==
    /\ IF isPlaying /\ currentSentenceIndex = index /\ synth.speaking /\ ~synth.paused
       THEN /\ synth' = pause(synth)
            /\ isPlaying' = FALSE
            /\ last' = Ran("click:pause", index)
            /\ UNCHANGED <<sentences, isLoading, currentSentenceIndex, error, epubFile,
                           created, timers, listeners, events>>
       ELSE IF isPlaying /\ currentSentenceIndex = index /\ synth.paused
       THEN /\ synth' = resume(synth)
            /\ isPlaying' = TRUE
            /\ last' = Ran("click:resume", index)
            /\ UNCHANGED <<sentences, isLoading, currentSentenceIndex, error, epubFile,
                           created, timers, listeners, events>>
       ELSE ClickRestart(index)
    /\ UNCHANGED <<uploads, apart>>

\* the function given to setTimeout: timers of equal delay run in the order
\* they were set; it reads the sentences and index of the click that set it
\* the continuation of the timer set last runs first
TimerFiresNewestFirst ==
    /\ timers # << >>
    /\ LET t == timers[Len(timers)]
           w == SpeakWhenReady(World, Utterance(created + 1, t.file, t.index))
       IN  /\ synth' = w.synth
           /\ events' = w.events
           /\ listeners' = w.listeners
           /\ last' = Ran("timer", t.index)
    /\ created' = created + 1
    /\ timers' = SubSeq(timers, 1, Len(timers) - 1)
    /\ UNCHANGED <<reactState, uploads, apart>>

TimerFires ==
    /\ timers # << >>
    /\ LET t == Head(timers)
           w == SpeakWhenReady(World, Utterance(created + 1, t.file, t.index))
       IN  /\ synth' = w.synth
           /\ events' = w.events
           /\ listeners' = w.listeners
           /\ last' = Ran("timer", t.index)
    /\ created' = created + 1
    /\ timers' = Tail(timers)
    /\ UNCHANGED <<reactState, uploads, apart>>

\* the engine's voice list arrives: every registered once-listener runs
\* cancel(); speak(utterance), in registration order
RECURSIVE RunListeners(_, _)
RunListeners(w, ls) ==
    IF ls = << >> THEN w
    ELSE RunListeners(CancelThenSpeak(w, Head(ls)), Tail(ls))

VoicesChanged ==
    /\ ~synth.voices
    /\ LET w == RunListeners([World EXCEPT !.synth.voices = TRUE], listeners)
       IN  /\ synth' = w.synth
           /\ events' = w.events
    /\ listeners' = << >>
    /\ last' = Ran("voiceschanged", null)
    /\ UNCHANGED <<reactState, created, timers, uploads, apart>>

(***************************************************************************)
(* The callbacks bound on an utterance by handlePlay and by the timer      *)
(* continuation of handleSentenceClick (the two sets are the same code).   *)
(***************************************************************************)
\* utterance.onstart
onstart(u) ==
    /\ currentSentenceIndex' = u.startIndex
    /\ isPlaying' = TRUE
    /\ last' = Ran("onstart", u.startIndex)
    /\ UNCHANGED error

\* utterance.onboundary
onboundary(u, event) ==
    LET index == boundaryIndex(TableOf(u), Len(TableOf(u)), event.charIndex)
    IN  /\ currentSentenceIndex' = IF index # null THEN index ELSE currentSentenceIndex
        /\ last' = Ran("onboundary", index)
        /\ UNCHANGED <<isPlaying, error>>

\* onend that keeps the index, as the pause branches do
onendKeepsIndex(u) ==
    /\ isPlaying' = FALSE
    /\ last' = Ran("onend", u.startIndex)
    /\ UNCHANGED <<currentSentenceIndex, error>>

\* utterance.onend
onend(u) ==
    /\ isPlaying' = FALSE
    /\ currentSentenceIndex' = null
    /\ last' = Ran("onend", u.startIndex)
    /\ UNCHANGED error

\* isCancellation without the !event.error test
isCancellationByCodeOnly(event) ==
    event.error = "canceled" \/ event.error = "interrupted"

\* const isCancellation = !event.error || event.error === 'canceled' ||
\*                        event.error === 'interrupted'
isCancellation(event) ==
    event.error = "" \/ event.error = "canceled" \/ event.error = "interrupted"

\* an onerror that ends playback for a cancellation only
onerrorOnlyReports(u, event) ==
    /\ error' = IF isCancellation(event) THEN error ELSE SynthesisError(event.error)
    /\ isPlaying' = IF isCancellation(event) THEN FALSE ELSE isPlaying
    /\ currentSentenceIndex' = IF isCancellation(event) THEN null ELSE currentSentenceIndex
    /\ last' = [Ran("onerror", u.startIndex) EXCEPT !.code = event.error]

\* utterance.onerror
onerror(u, event) ==
    /\ error' = IF isCancellation(event) THEN error ELSE SynthesisError(event.error)
    /\ isPlaying' = FALSE
    /\ currentSentenceIndex' = null
    /\ last' = [Ran("onerror", u.startIndex) EXCEPT !.code = event.error]

(***************************************************************************)
(* The speech engine's own steps on the utterance at the head of the       *)
(* queue.  The page sees the engine's state change in the task that fires  *)
(* the event, so each step runs the utterance's callback at once.          *)
(***************************************************************************)
\* the head of the queue begins to be spoken: fires 'start'
EngineStart ==
    /\ synth.queue # << >>
    /\ ~synth.speaking
    /\ ~synth.paused
    /\ synth' = [synth EXCEPT !.speaking = TRUE]
    /\ onstart(Head(synth.queue))
    /\ UNCHANGED <<sentences, isLoading, epubFile, created, timers, listeners, events,
                   uploads, apart>>

\* the engine reaches the first word of a sentence: fires 'boundary'
EngineBoundary ==
    /\ synth.speaking
    /\ ~synth.paused
    /\ \E charIndex \in reported[Head(synth.queue).file][Head(synth.queue).startIndex] :
          onboundary(Head(synth.queue), Event(Head(synth.queue), "boundary", charIndex, ""))
    /\ UNCHANGED <<sentences, isLoading, epubFile, engineState, uploads, apart>>

\* the utterance has been spoken to its end: fires 'end'
EngineEnd ==
    /\ synth.speaking
    /\ ~synth.paused
    /\ synth' = [synth EXCEPT !.queue = Tail(@), !.speaking = FALSE]
    /\ onend(Head(synth.queue))
    /\ UNCHANGED <<sentences, isLoading, epubFile, created, timers, listeners, events,
                   uploads, apart>>

\* synthesis of the utterance fails: fires 'error'
EngineFails(code) ==
    /\ synth.speaking
    /\ synth' = [synth EXCEPT !.queue = Tail(@), !.speaking = FALSE]
    /\ onerror(Head(synth.queue), Event(Head(synth.queue), "error", 0, code))
    /\ UNCHANGED <<sentences, isLoading, epubFile, created, timers, listeners, events,
                   uploads, apart>>

\* an 'error' event of an utterance removed by cancel() reaches the page; the
\* order in which the events of different utterances arrive is not fixed
Dispatch ==
    /\ events # << >>
    /\ onerror(Head(events).u, Head(events))
    /\ events' = Tail(events)
    /\ UNCHANGED <<sentences, isLoading, epubFile, synth, created, timers, listeners,
                   uploads, apart>>

\* the indices handleSentenceClick is given: those of the rendered sentences
\* (the only ones the page passes) and, as an argument out of range, the
\* first index past the end
ClickIndices == 0..Len(sentences)

Next ==
    \/ UploadBegin
    \/ UploadDone
    \/ handlePlay
    \/ \E index \in ClickIndices : handleSentenceClick(index)
    \/ TimerFires
    \/ VoicesChanged
    \/ EngineStart
    \/ EngineBoundary
    \/ EngineEnd
    \/ \E code \in FailureCodes : EngineFails(code)
    \/ Dispatch

Spec == Init /\ [][Next]_vars

(***************************************************************************)
(* splitIntoSentences on its own: every string over Alphabet of length at  *)
(* most MaxLen is an argument.                                             *)
(***************************************************************************)
Alphabet == {"a", ".", "!", "?", " ", "\n"}

RECURSIVE StringsOfLength(_)
StringsOfLength(n) ==
    IF n = 0 THEN {<< >>}
    ELSE {Append(s, c) : s \in StringsOfLength(n - 1), c \in Alphabet}

Inputs == UNION {StringsOfLength(n) : n \in 0..MaxLen}

SegInit ==
    /\ CoordInit
    /\ segText \in Inputs
    /\ segResult = << >>
    /\ segPc = "input"
    /\ reportedOffset = 0

Segment ==
    /\ segPc = "input"
    /\ segResult' = splitIntoSentences(segText)
    /\ segPc' = "done"
    /\ UNCHANGED <<segText, reportedOffset, reactState, engineState, uploads, last>>

SegNext == Segment

SegSpec == SegInit /\ [][SegNext]_vars

(***************************************************************************)
(* One utterance from its start on: the engine reports any offsets of the  *)
(* text, in non-decreasing order.  The initial states are those right      *)
(* after onstart, for every file and every start index.                    *)
(***************************************************************************)
ProgressInit ==
    \E k \in DOMAIN Files :
       \E startIndex \in 0..(Len(extractedSentences[Files[k]]) - 1) :
          /\ sentences = extractedSentences[Files[k]]
          /\ isLoading = FALSE
          /\ isPlaying = TRUE
          /\ currentSentenceIndex = startIndex
          /\ error = NoError
          /\ epubFile = Files[k]
          /\ synth = [queue |-> <<Utterance(1, Files[k], startIndex)>>,
                      speaking |-> TRUE, paused |-> FALSE, voices |-> TRUE]
          /\ created = 1
          /\ timers = << >>
          /\ listeners = << >>
          /\ events = << >>
          /\ uploads = k
          /\ last = [op |-> "onstart", arg |-> startIndex, code |-> "none",
                     afterEnd |-> FALSE]
          /\ segText = << >>
          /\ segResult = << >>
          /\ segPc = "off"
          /\ reportedOffset = 0

\* a 'boundary' event at an offset not before the latest one
Progress ==
    /\ synth.speaking
    /\ ~synth.paused
    /\ \E offset \in reportedOffset..(Len(TextOf(Head(synth.queue))) - 1) :
          /\ onboundary(Head(synth.queue),
                        Event(Head(synth.queue), "boundary", offset, ""))
          /\ reportedOffset' = offset
    /\ UNCHANGED <<sentences, isLoading, epubFile, engineState, uploads, segState>>

ProgressNext == Progress

ProgressSpec == ProgressInit /\ [][ProgressNext]_vars

(***************************************************************************)
(* The playback state the page shows.  Playing: isPlaying.  Paused: not    *)
(* isPlaying, the engine paused and an index kept (the condition under     *)
(* which handlePlay resumes).  Idle: otherwise.                            *)
(***************************************************************************)
PlaybackState ==
    IF isPlaying THEN "Playing"
    ELSE IF synth.paused /\ currentSentenceIndex # null THEN "Paused"
    ELSE "Idle"

\* the branches of handleSentenceClick and of handlePlay
ClickOps == {"click:pause", "click:resume", "click:restart", "click:notext"}
PlayOps == {"play:empty", "play:resume", "play:pause", "play:start", "play:notext"}

\* the step neither cancels a request nor issues or schedules a new one
NoCancelNoRequest ==
    /\ synth'.queue = synth.queue
    /\ UNCHANGED <<created, timers, listeners, events>>

(***************************************************************************)
(* C1: in every reachable state currentSentenceIndex is null or a valid    *)
(* index into the sentences of the document now loaded.                    *)
(***************************************************************************)
C1_IndexValid ==
    \/ currentSentenceIndex = null
    \/ (0 <= currentSentenceIndex /\ currentSentenceIndex < Len(sentences))

(***************************************************************************)
(* C2: every upload, whatever the state it is made in, leaves the engine   *)
(* without an outstanding request and the page Idle with no current index. *)
(***************************************************************************)
C2_UploadResets ==
    [][last'.op = "upload:begin" =>
          /\ sentences' = << >>
          /\ synth'.queue = << >>
          /\ PlaybackState' = "Idle"
          /\ currentSentenceIndex' = null]_vars

(***************************************************************************)
(* C3: handleSentenceClick(i) while Playing with currentSentenceIndex = i, *)
(* a valid index, leaves the page Paused at i and neither cancels the      *)
(* request nor issues or schedules another.                                *)
(***************************************************************************)
C3_ClickCurrentPauses ==
    [][(/\ PlaybackState = "Playing"
        /\ C1_IndexValid
        /\ last'.op \in ClickOps
        /\ last'.arg = currentSentenceIndex)
       => (/\ PlaybackState' = "Paused"
           /\ currentSentenceIndex' = currentSentenceIndex
           /\ NoCancelNoRequest)]_vars

(***************************************************************************)
(* C4: handleSentenceClick(i) while Paused with currentSentenceIndex = i   *)
(* resumes in place: the page is Playing at i, and the request is neither  *)
(* cancelled nor replaced.                                                 *)
(***************************************************************************)
C4_ClickPausedResumes ==
    [][(/\ PlaybackState = "Paused"
        /\ C1_IndexValid
        /\ last'.op \in ClickOps
        /\ last'.arg = currentSentenceIndex)
       => (/\ PlaybackState' = "Playing"
           /\ currentSentenceIndex' = currentSentenceIndex
           /\ NoCancelNoRequest)]_vars

(***************************************************************************)
(* C5: handleSentenceClick(index) with index >= sentences.length changes   *)
(* neither the playback state, nor currentSentenceIndex, nor the engine's  *)
(* request, and issues or schedules no request.                            *)
(***************************************************************************)
C5_ClickOutOfRangeNoOp ==
    [][(last'.op \in ClickOps /\ last'.arg >= Len(sentences))
       => (/\ PlaybackState' = PlaybackState
           /\ currentSentenceIndex' = currentSentenceIndex
           /\ synth' = synth
           /\ UNCHANGED <<created, timers, listeners, events>>)]_vars

(***************************************************************************)
(* C6: in every reachable state the engine holds at most one utterance,    *)
(* speaking or queued.                                                     *)
(***************************************************************************)
C6_OneOutstandingRequest == Len(synth.queue) <= 1

\* a later utterance is the only one held while the error event of the
\* speaking utterance it superseded is still on its way
C6_Superseded ==
    /\ Len(synth.queue) = 1
    /\ \E k \in DOMAIN events :
          /\ events[k].u.id < synth.queue[1].id
          /\ events[k].error = "interrupted"

(***************************************************************************)
(* C7: an onerror callback given no code, "canceled" or "interrupted"      *)
(* leaves the error message as it was; given any other code it sets the    *)
(* error message, which carries that code.                                 *)
(***************************************************************************)
C7_ErrorNotification ==
    [][last'.op = "onerror" =>
          IF last'.code \in {"", "canceled", "interrupted"}
          THEN error' = error
          ELSE error'.msg = "Speech synthesis error" /\ error'.code = last'.code]_vars

\* an onerror callback has run with no code and no message was set
C7_AbsentCodeSwallowed ==
    /\ last.op = "onerror"
    /\ last.code = ""
    /\ error = NoError

(***************************************************************************)
(* C8: an onend callback leaves the page Idle with no current index, and   *)
(* handlePlay run next, with sentences loaded, issues a request that       *)
(* starts at sentence 0.                                                   *)
(***************************************************************************)
\* the utterance the step has handed to the engine or to a voiceschanged listener
Issued ==
    IF synth.voices THEN synth'.queue[Len(synth'.queue)]
    ELSE listeners'[Len(listeners')]

C8_EndThenPlayFromStart ==
    [][/\ last'.op = "onend" =>
            PlaybackState' = "Idle" /\ currentSentenceIndex' = null
       /\ (last.op = "onend" /\ last'.op \in PlayOps /\ Len(sentences) > 0) =>
            /\ last'.op = "play:start"
            /\ created' = created + 1
            /\ Issued.id = created'
            /\ Issued.startIndex = 0
            /\ TextOf(Issued) = textToReadOf(sentences, 0)]_vars

\* handlePlay has run right after an onend callback and issued a request
C8_PlayedAfterEnd ==
    /\ last.op = "play:start"
    /\ last.afterEnd
    /\ Len(synth.queue) = 1

(***************************************************************************)
(* C9: while one utterance is spoken and the offsets of its boundary       *)
(* events do not decrease, currentSentenceIndex does not decrease.         *)
(***************************************************************************)
C9_ProgressMonotone ==
    [][(last'.op = "onboundary" /\ reportedOffset' >= reportedOffset)
       => currentSentenceIndex' >= currentSentenceIndex]_vars

\* a boundary event past the first sentence of the utterance has moved the
\* index beyond the utterance's start index
C9_Advanced ==
    /\ last.op = "onboundary"
    /\ reportedOffset > 0
    /\ currentSentenceIndex > Head(synth.queue).startIndex

(***************************************************************************)
(* C10: for every input, the sentences splitIntoSentences returns have     *)
(* startIndex < endIndex, each startIndex at or after the endIndex of the  *)
(* sentence before it, and non-empty text.                                 *)
(***************************************************************************)
C10_SentencesAscending ==
    segPc = "done" =>
        \A i \in DOMAIN segResult :
            /\ segResult[i].startIndex < segResult[i].endIndex
            /\ Len(segResult[i].text) > 0
            /\ i > 1 => segResult[i].startIndex >= segResult[i - 1].endIndex

\* an input with a run of two terminators has been split into two sentences
C10_TwoSentences ==
    /\ segPc = "done"
    /\ Len(segResult) = 2
    /\ \E p \in 1..(Len(segText) - 1) :
          IsTerminator(segText[p]) /\ IsTerminator(segText[p + 1])

(***************************************************************************)
(* C11: when the normalized input is not empty, the texts of the sentences *)
(* joined by single spaces are the normalized input, and splitting the     *)
(* normalized input gives the same sentences as splitting the input.       *)
(***************************************************************************)
\* the texts of a sequence of sentences
Texts(units) == [i \in DOMAIN units |-> units[i].text]

C11_JoinRestoresNormalized ==
    (segPc = "done" /\ cleanedTextOf(segText) # << >>) =>
        /\ join(Texts(segResult)) = cleanedTextOf(segText)
        /\ splitIntoSentences(cleanedTextOf(segText)) = segResult

\* an input that normalization changes inside, split into several sentences
C11_NormalizedInside ==
    /\ segPc = "done"
    /\ Len(segResult) >= 2
    /\ Len(cleanedTextOf(segText)) < Len(trim(segText))

(***************************************************************************)
(* C12: when the input has no terminator run followed by whitespace and    *)
(* its line breaks separate n >= 2 non-empty lines, splitIntoSentences     *)
(* returns n sentences, one per non-empty line.                            *)
(***************************************************************************)
\* the non-empty lines of the input, trimmed
NonEmptyLines(s) ==
    LET kept == SelectSeq(SplitLines(s, 0, << >>), LAMBDA line : Len(trim(line)) > 0)
    IN  [i \in DOMAIN kept |-> trim(kept[i])]

C12_OneSentencePerLine ==
    (/\ segPc = "done"
     /\ sentenceEndingsExec(segText, 0) = NoMatch
     /\ Len(NonEmptyLines(segText)) >= 2)
    => Texts(segResult) = NonEmptyLines(segText)

(***************************************************************************)
(* C13: when the input has no terminator run followed by whitespace and no *)
(* line break, splitIntoSentences returns exactly one sentence, whose text *)
(* is the normalized input and whose offsets are 0 and its length.         *)
(***************************************************************************)
\* the input holds no line break
NoLineBreak(s) == \A i \in DOMAIN s : s[i] # "\n"

\* the one sentence that spans the whole normalized input
WholeInput(s) ==
    <<[text |-> cleanedTextOf(s), startIndex |-> 0, endIndex |-> Len(cleanedTextOf(s))]>>

C13_SingleSentence ==
    (/\ segPc = "done"
     /\ sentenceEndingsExec(segText, 0) = NoMatch
     /\ NoLineBreak(segText))
    => segResult = WholeInput(segText)

\* C13 as amended: the same, for an input that is not empty after
\* normalization (an empty or blank input gives no sentence)
C13_SingleSentenceOfText ==
    (/\ segPc = "done"
     /\ sentenceEndingsExec(segText, 0) = NoMatch
     /\ NoLineBreak(segText)
     /\ cleanedTextOf(segText) # << >>)
    => segResult = WholeInput(segText)

\* an input with spaces around and inside its text, and a terminator at its
\* end, has come back as one sentence
C13_OneTrimmedSentence ==
    /\ segPc = "done"
    /\ sentenceEndingsExec(segText, 0) = NoMatch
    /\ NoLineBreak(segText)
    /\ Len(segResult) = 1
    /\ Len(segResult[1].text) < Len(segText)
    /\ IsTerminator(segText[Len(segText)])

(***************************************************************************)
(* C14: the sentences end exactly at the runs of '.', '!', '?' that are    *)
(* followed by whitespace in the normalized input: there is one sentence   *)
(* per such run, plus one when text remains after the last run; every      *)
(* sentence but the last ends with a terminator; and "Hello world. This is *)
(* a test! Is it working?" gives its three sentences.                      *)
(***************************************************************************)
\* the offsets just past a terminator at which whitespace follows
RunEnds(s) ==
    {e \in 1..(Len(s) - 1) : At(s, e - 1) \in {".", "!", "?"} /\ At(s, e) \in {" ", "\n"}}

\* the largest element of a non-empty set of numbers
Max(S) == CHOOSE x \in S : \A y \in S : y <= x

\* 1 when text remains after the last run and the whitespace behind it
Remains(s) ==
    LET from == IF RunEnds(s) = {} THEN 0 ELSE Max(RunEnds(s)) + 1
    IN  IF trim(substring(s, from, Len(s))) # << >> THEN 1 ELSE 0

HelloWorld ==
    <<"H", "e", "l", "l", "o", " ", "w", "o", "r", "l", "d", ".", " ",
    "T", "h", "i", "s", " ", "i", "s", " ", "a", " ", "t", "e", "s", "t",
    "!", " ", "I", "s", " ", "i", "t", " ", "w", "o", "r", "k", "i", "n",
    "g", "?">>

HelloWorldSentences == Texts(splitIntoSentences(HelloWorld))

C14_RunsEndSentences ==
    segPc = "done" =>
        LET normalized == cleanedTextOf(segText)
            runs == Cardinality(RunEnds(normalized))
        IN  /\ Len(segResult) = runs + Remains(normalized)
            /\ {segResult[i].endIndex : i \in 1..runs} = RunEnds(normalized)
            /\ \A i \in 1..(Len(segResult) - 1) :
                  segResult[i].text[Len(segResult[i].text)] \in {".", "!", "?"}
            /\ HelloWorldSentences = <<SubSeq(HelloWorld, 1, 12),
                                       SubSeq(HelloWorld, 14, 28),
                                       SubSeq(HelloWorld, 30, 43)>>

\* an input with a terminator inside a word, a run followed by a space and
\* text after it
C14_RunInsideWord ==
    /\ segPc = "done"
    /\ Len(segResult) = 2
    /\ \E p \in 1..(Len(segText) - 1) :
          IsTerminator(segText[p]) /\ ~IsSpace(segText[p + 1])
                                   /\ ~IsTerminator(segText[p + 1])

(***************************************************************************)
(* C15: splitIntoSentences returns a result for every input; the result is *)
(* empty exactly when the input is empty or holds whitespace only.         *)
(***************************************************************************)
\* the input is empty or holds whitespace only
Blank(s) == \A i \in DOMAIN s : s[i] \in {" ", "\n"}

C15_EmptyIffBlank ==
    /\ segPc = "input" => Len(splitIntoSentences(segText)) >= 0
    /\ segPc = "done" =>
          /\ segResult = << >> <=> Blank(segText)
          /\ ~Blank(segText) => Len(segResult) >= 1

\* a whitespace-only input of several characters has given no sentence
C15_BlankInput ==
    /\ segPc = "done"
    /\ Len(segText) >= 2
    /\ Blank(segText)
    /\ segResult = << >>

(***************************************************************************)
(* C16: handleSentenceClick(j) for a valid j other than the current index  *)
(* leaves the engine without a request and the page Idle, issues no        *)
(* request itself but sets the timer for j; and when the utterance the     *)
(* timer issues starts, the page is Playing at j.                          *)
(***************************************************************************)
C16_ClickOtherRestarts ==
    [][/\ (/\ last'.op \in ClickOps
           /\ last'.arg < Len(sentences)
           /\ last'.arg # currentSentenceIndex)
          => (/\ synth'.queue = << >>
              /\ PlaybackState' = "Idle"
              /\ currentSentenceIndex' = null
              /\ timers' = Append(timers, [index |-> last'.arg, file |-> epubFile])
              /\ UNCHANGED <<created, listeners>>)
       /\ last'.op = "onstart"
          => (PlaybackState' = "Playing" /\ currentSentenceIndex' = last'.arg)]_vars

(***************************************************************************)
(* C17: handlePlay while Playing pauses the engine and leaves the page     *)
(* Paused, with currentSentenceIndex, the sentences and the engine's       *)
(* request as they were, and no request issued or scheduled.               *)
(***************************************************************************)
C17_PlayWhilePlayingPauses ==
    [][(PlaybackState = "Playing" /\ C1_IndexValid /\ last'.op \in PlayOps)
       => (/\ synth'.paused
           /\ PlaybackState' = "Paused"
           /\ currentSentenceIndex' = currentSentenceIndex
           /\ sentences' = sentences
           /\ NoCancelNoRequest)]_vars

(***************************************************************************)
(* C18: handlePlay while Paused with an index resumes the engine and       *)
(* leaves the page Playing at the same index, with no cancel and no        *)
(* request issued or scheduled; so handlePlay run twice from Playing gives *)
(* Playing again, with the same index and the same request.                *)
(***************************************************************************)
\* the step resumes in place
ResumedInPlace ==
    /\ last'.op = "play:resume"
    /\ ~synth'.paused
    /\ PlaybackState' = "Playing"
    /\ currentSentenceIndex' = currentSentenceIndex
    /\ NoCancelNoRequest

\* the first half of C18 alone
C18_PlayWhilePausedResumes ==
    [][(PlaybackState = "Paused" /\ last'.op \in PlayOps) => ResumedInPlace]_vars

\* C18 whole: handlePlay while Paused resumes in place, and so does the
\* handlePlay that follows a handlePlay run while Playing
C18_PlayTwiceFromPlaying ==
    [][/\ (PlaybackState = "Paused" /\ last'.op \in PlayOps) => ResumedInPlace
       /\ (last.op = "play:pause" /\ C1_IndexValid /\ currentSentenceIndex # null
             /\ last'.op \in PlayOps) => ResumedInPlace]_vars

(***************************************************************************)
(* C19: handlePlay with no sentences sets the error message, issues no     *)
(* request and no cancel, and leaves the playback state and                *)
(* currentSentenceIndex as they were.                                      *)
(***************************************************************************)
C19_PlayWithoutSentences ==
    [][(Len(sentences) = 0 /\ last'.op \in PlayOps)
       => (/\ last'.op = "play:empty"
           /\ error' = Message("Please upload and parse an EPUB file first")
           /\ synth' = synth
           /\ NoCancelNoRequest
           /\ PlaybackState' = PlaybackState
           /\ currentSentenceIndex' = currentSentenceIndex)]_vars

\* handlePlay has run with no sentences and the message is shown
C19_MessageShown ==
    /\ last.op = "play:empty"
    /\ Len(sentences) = 0
    /\ error = Message("Please upload and parse an EPUB file first")
    /\ synth.queue = << >>

(***************************************************************************)
(* C20: a step that runs onerror, for a cancellation or for a real error,  *)
(* ends Idle with currentSentenceIndex null, as a step that runs onend     *)
(* does, and calls neither speak nor setTimeout nor addEventListener; and  *)
(* an utterance is handed to the engine only by handlePlay, by the timer   *)
(* set by handleSentenceClick or by the voiceschanged listener those two   *)
(* register, so none follows an onerror without a call of handlePlay or    *)
(* handleSentenceClick behind it.                                          *)
(***************************************************************************)
\* the ids of the utterances in the engine's queue
QueuedIds(sy) == {sy.queue[i].id : i \in 1..Len(sy.queue)}

\* the page state a callback that ends playback leaves
EndedPlayback ==
    /\ PlaybackState' = "Idle"
    /\ ~isPlaying'
    /\ currentSentenceIndex' = null
    /\ UNCHANGED <<sentences, isLoading, epubFile>>

BeginsAt(sents, from, k) ==
    IF k = from THEN 0
    ELSE Len(join([i \in 1..(k - from) |-> sents[from + i].text])) + 1

\* the sentence from `from` on that begins last at or before offset
SentenceAt(sents, from, offset) ==
    CHOOSE k \in from..(Len(sents) - 1) :
        /\ BeginsAt(sents, from, k) <= offset
        /\ \A j \in from..(Len(sents) - 1) :
              BeginsAt(sents, from, j) <= offset => j <= k

C21_BoundaryResolvesSentence ==
    [][LET u == Head(synth.queue)
           narrated == TextOf(u)
       IN  /\ narrated = join(Texts(slice(sentences, u.startIndex)))
           /\ Len(TableOf(u)) = Len(sentences) - u.startIndex
           /\ \A k \in u.startIndex..(Len(sentences) - 1) :
                 LET entry == TableOf(u)[k - u.startIndex + 1]
                 IN  /\ entry.index = k
                     /\ entry.charStart = BeginsAt(sentences, u.startIndex, k)
                     /\ substring(narrated, entry.charStart,
                                  entry.charStart + Len(sentences[k + 1].text))
                           = sentences[k + 1].text
           /\ last'.op = "onboundary"
                 => currentSentenceIndex'
                       = SentenceAt(sentences, u.startIndex, reportedOffset')]_vars

\* an utterance begun past the first sentence has reported an offset inside
\* a later sentence, and the index is that sentence's
C21_InsideLaterSentence ==
    /\ last.op = "onboundary"
    /\ Head(synth.queue).startIndex = 1
    /\ currentSentenceIndex = 2
    /\ reportedOffset > TableOf(Head(synth.queue))[2].charStart
    /\ reportedOffset < Len(TextOf(Head(synth.queue))) - 1

(***************************************************************************)
(* C22: the text of every sentence splitIntoSentences returns is the       *)
(* substring of cleanedText from its startIndex up to, not including, its  *)
(* endIndex; so the text's length is endIndex - startIndex, and            *)
(* 0 <= startIndex < endIndex <= cleanedText.length.                       *)
(***************************************************************************)
C22_TextIsHalfOpenRange ==
    segPc = "done" =>
        \A i \in DOMAIN segResult :
            /\ segResult[i].text
                  = substring(cleanedTextOf(segText), segResult[i].startIndex,
                              segResult[i].endIndex)
            /\ Len(segResult[i].text) = segResult[i].endIndex - segResult[i].startIndex
            /\ 0 <= segResult[i].startIndex
            /\ segResult[i].startIndex < segResult[i].endIndex
            /\ segResult[i].endIndex <= Len(cleanedTextOf(segText))

\* a sentence that starts past offset 0 of a text normalization has changed
C22_LaterSentenceOfChangedText ==
    /\ segPc = "done"
    /\ cleanedTextOf(segText) # segText
    /\ \E i \in DOMAIN segResult :
          /\ segResult[i].startIndex > 0
          /\ segResult[i].endIndex < Len(cleanedTextOf(segText))

(***************************************************************************)
(* C26: when cleanedText is not empty, the sentences splitIntoSentences    *)
(* returns cover it with one character between neighbours: the first       *)
(* startIndex is 0, every later startIndex is the endIndex before it plus  *)
(* 1, and the last endIndex is cleanedText.length.                         *)
(***************************************************************************)
C26_SentencesTileText ==
    (segPc = "done" /\ cleanedTextOf(segText) # << >>) =>
        /\ Len(segResult) >= 1
        /\ segResult[1].startIndex = 0
        /\ \A i \in 2..Len(segResult) :
              segResult[i].startIndex = segResult[i - 1].endIndex + 1
        /\ segResult[Len(segResult)].endIndex = Len(cleanedTextOf(segText))

\* three sentences, the neighbours one space apart, of a text normalization
\* has changed
C26_ThreeSentencesTiled ==
    /\ segPc = "done"
    /\ Len(segResult) = 3
    /\ cleanedTextOf(segText) # segText
    /\ At(cleanedTextOf(segText), segResult[1].endIndex) = " "
    /\ At(cleanedTextOf(segText), segResult[2].endIndex) = " "

(***************************************************************************)
(* C23: while an utterance is being spoken and the engine is not paused,   *)
(* an error event of an utterance cancel() removed earlier, arriving after *)
(* the spoken utterance's onstart, leaves the page Playing with the        *)
(* currentSentenceIndex it had.                                            *)
(***************************************************************************)
C23_StaleCallbackKeepsState ==
    [][(/\ synth.queue # << >>
        /\ synth.speaking
        /\ ~synth.paused
        /\ PlaybackState = "Playing"
        /\ currentSentenceIndex # null
        /\ last'.op = "onerror"
        /\ events # << >>
        /\ events' = Tail(events))
       => (/\ PlaybackState' = "Playing"
           /\ currentSentenceIndex' = currentSentenceIndex)]_vars

(***************************************************************************)
(* C24: when handlePlay has issued an utterance while a timer set by       *)
(* handleSentenceClick is pending, the timer's continuation, firing next,  *)
(* leaves that utterance in the engine's queue.                            *)
(***************************************************************************)
C24_PlayOutlivesContinuation ==
    [][(/\ last.op = "play:start"
        /\ synth.queue # << >>
        /\ last'.op = "timer")
       => synth'.queue = synth.queue]_vars

(***************************************************************************)
(* C25: of two timers set by handleSentenceClick(a) and                    *)
(* handleSentenceClick(b), both pending, the continuation for a fires      *)
(* first and the one for b second, and each leaves its own utterance as    *)
(* the only one the engine holds; so when both have fired the engine holds *)
(* the utterance starting at b alone, the one starting at a cancelled.     *)
(* With no voices loaded the utterances wait for voiceschanged in that     *)
(* order, and the last one alone is left when the voices arrive.           *)
(***************************************************************************)
C25_LastSeekWins ==
    [][/\ last'.op = "click:restart"
            => timers' = Append(timers, [index |-> last'.arg, file |-> epubFile])
       /\ last'.op = "timer"
            => LET u == Utterance(created', Head(timers).file, Head(timers).index)
               IN  /\ timers' = Tail(timers)
                   /\ last'.arg = Head(timers).index
                   /\ IF synth.voices
                      THEN /\ synth'.queue = <<u>>
                           /\ ~synth'.speaking
                           /\ \A i \in DOMAIN synth.queue :
                                 \E k \in DOMAIN events' : events'[k].u = synth.queue[i]
                      ELSE /\ listeners' = Append(listeners, u)
                           /\ synth'.queue = synth.queue
       /\ (last'.op = "voiceschanged" /\ listeners # << >>)
            => synth'.queue = <<listeners[Len(listeners)]>>]_vars

\* both continuations have fired: the utterance starting at b is the only one
\* in the engine's queue and the one starting at a, issued just before it by
\* the first continuation, has been cancelled unspoken
C25_SecondSeekLive ==
    /\ last.op = "timer"
    /\ timers = << >>
    /\ created = 2
    /\ Len(synth.queue) = 1
    /\ synth.queue[1].id = 2
    /\ synth.queue[1].startIndex = last.arg
    /\ \E k \in DOMAIN events :
          /\ events[k].u.id = 1
          /\ events[k].u.startIndex >= 1
          /\ events[k].u.startIndex # synth.queue[1].startIndex
          /\ events[k].error = "canceled"

====
